---- MODULE Spec2Model ----
(***************************************************************************)
(* The Planner (ReAct loop), its approval queue and the ToolRegistry of    *)
(* the AI Ubuntu Agent, with the two transports that drive them            *)
(* (POST /api/tasks, POST /api/approvals, POST /api/tools/:name/execute    *)
(* and the WebSocket handlers).                                            *)
(*                                                                         *)
(* Node runs the code on one thread: every action below is one run of the  *)
(* code between two suspension points (an await or a yield).               *)
(***************************************************************************)
EXTENDS Integers, Sequences, FiniteSets, TLC

VARIABLES
  tasks,            \* Planner.tasks: the Task records, in insertion order
  concurrentTasks,  \* Planner.concurrentTasks
  approvalQueue,    \* Planner.approvalQueue: ids of the pending requests
  gen,              \* one executeTask generator (and its consumer) per task
  approvals,        \* every ApprovalRequest ever created, with its history
  timers,           \* approval ids whose 30 s setTimeout has not fired yet
  events,           \* per task, the events the Planner emitted for it
  execLog,          \* every run of a tool's execute operation
  notFound,         \* the approval id of the latest approveAction / denyAction that returned false
  toolMetrics,      \* the recordToolMetric calls: per task in order, and those of the transports
  cache,            \* LLMClient.cache: the entries of the NodeCache, by cache key
  chats,            \* every LLMClient.chat call, in the order the calls were made
  now,              \* Date.now(), in seconds
  drawnTask,        \* a Task taken on its own, for what the Planner computes from its steps
  messages,         \* what buildMessages returned for it
  registryCalls     \* ToolRegistry.executeTool called on its own: each call with what it did

plannerVars == <<tasks, concurrentTasks, approvalQueue, gen, approvals, timers,
                 events, execLog, notFound, toolMetrics>>

llmVars == <<cache, chats, now>>

taskVars == <<drawnTask, messages>>

vars == <<tasks, concurrentTasks, approvalQueue, gen, approvals, timers,
          events, execLog, notFound, toolMetrics, cache, chats, now,
          drawnTask, messages, registryCalls>>

----------------------------------------------------------------------------
(* Program constants                                                       *)

maxIterations == 15
maxConcurrentTasks == 3
HttpStepLimit == 3

(* Bounds of the model                                                     *)

MaxTasks == 4          \* executeTask calls in a run of tasks alone
MaxToolTasks == 1      \* executeTask calls in a run with tool or approval calls
MaxTotalSteps == 3     \* provider responses in a run of tasks alone (see ResponseAllowed)
MaxToolRunSteps == 2   \* provider responses in a run with tool calls
MaxToolRequests == 1   \* tool calls the provider asks for in one run
MaxDirectCalls == 1    \* tool calls a transport makes in one run

Undefined == "undefined"

----------------------------------------------------------------------------
(* ToolRegistry: the built-in tools                                        *)

MaxRegistryCalls == 2  \* executeTool calls in a run of the registry alone

RegisteredTools == {"screenshot", "click", "type", "exec", "wait"}

requiresApproval(name) == name = "exec"

\* Argument objects a caller can send; "{}" is the empty object.
ParamValues == {"{}", "ls", "rm -rf /"}

\* tool.parameters.safeParse(params).success
SchemaAccepts(name, params) ==
  IF name = "screenshot" THEN TRUE ELSE params # "{}"

\* tool.validate(params).valid; only exec declares a validator
DangerousCommands == {"rm -rf /"}

CustomValidatorAccepts(name, params) ==
  IF name = "exec" THEN params \notin DangerousCommands ELSE TRUE

\* a gate that asks for the approval before it validates the parameters
RegistryGateApprovalFirst(name, params, approved) ==
  IF name \notin RegisteredTools THEN "Tool not found"
  ELSE IF requiresApproval(name) /\ ~approved THEN "Tool requires approval"
  ELSE IF ~SchemaAccepts(name, params) THEN "Invalid parameters"
  ELSE IF ~CustomValidatorAccepts(name, params) THEN "Validation failed"
  ELSE "execute"

\* ToolRegistry.executeTool up to (not including) the call of tool.execute:
\* "execute" when the tool is to be run, else the error of the ToolResult.
RegistryGate(name, params, approved) ==
  IF name \notin RegisteredTools THEN "Tool not found"
  ELSE IF ~SchemaAccepts(name, params) THEN "Invalid parameters"
  ELSE IF ~CustomValidatorAccepts(name, params) THEN "Validation failed"
  ELSE IF requiresApproval(name) /\ ~approved THEN "Tool requires approval"
  ELSE "execute"

----------------------------------------------------------------------------
(* Steps and tasks                                                         *)

NoResult == [kind |-> Undefined, v |-> Undefined, n |-> 0]

Payload(name) == [kind |-> "data", v |-> name, n |-> 0]

\* An observation text: a fixed prefix followed by a message
Obs(prefix, text) == [prefix |-> prefix, text |-> text]

NoObservation == Obs("", Undefined)

NewStep ==
  [thought |-> "", action |-> Undefined, actionInput |-> Undefined,
   observation |-> NoObservation, error |-> Undefined, result |-> NoResult]

\* Planner.formatObservation
formatObservation(success, error, data) ==
  IF ~success THEN Obs("Failed: ", error) ELSE Obs("", data.v)

CompletionPhrases == {"Task complete", "Successfully completed"}

\* thought.toLowerCase().includes('task complete' | 'successfully completed')
HasCompletionPhrase(thought) == thought \in CompletionPhrases

\* a window of two steps
Last2(s) == SubSeq(s, IF Len(s) > 2 THEN Len(s) - 1 ELSE 1, Len(s))

\* task.steps.slice(-3)
Last3(s) == SubSeq(s, IF Len(s) > 3 THEN Len(s) - 2 ELSE 1, Len(s))

recentErrors(steps) ==
  Cardinality({i \in DOMAIN Last3(steps) : Last3(steps)[i].error # Undefined})

\* Planner.isTaskComplete: "complete", "throw" or "continue"
isTaskComplete(steps) ==
  IF Len(steps) > 0 /\ HasCompletionPhrase(steps[Len(steps)].thought)
    THEN "complete"
  ELSE IF recentErrors(steps) >= 3 THEN "throw"
  ELSE "continue"

\* A tool's data that is there but falsy (an empty string)
EmptyPayload == [kind |-> "data", v |-> "", n |-> 0]

\* s.result && !s.error
IsSuccessful(s) ==
  /\ s.result.kind # Undefined /\ s.result.v # ""
  /\ s.error \in {Undefined, ""}

\* [...task.steps].reverse().find(s => s.result && !s.error), as an index
RECURSIVE LastSuccessful(_, _)
LastSuccessful(steps, i) ==
  IF i = 0 THEN 0
  ELSE IF IsSuccessful(steps[i]) THEN i
  ELSE LastSuccessful(steps, i - 1)

\* a result extraction that finds nothing
extractResultMissing(steps) == NoResult

\* a result extraction that searches from the first step on
extractResultFirst(steps) ==
  LET good == {i \in DOMAIN steps : IsSuccessful(steps[i])} IN
  IF good # {}
    THEN steps[CHOOSE i \in good : \A j \in good : i <= j].result
    ELSE [kind |-> "summary", v |-> "Task completed", n |-> Len(steps)]

\* Planner.extractResult
extractResult(steps) ==
  IF LastSuccessful(steps, Len(steps)) # 0
    THEN steps[LastSuccessful(steps, Len(steps))].result
    ELSE [kind |-> "summary", v |-> "Task completed", n |-> Len(steps)]

\* a capacity check that lets one task too many in
AtCapacityOffByOne(n) == n > maxConcurrentTasks

\* this.concurrentTasks >= this.maxConcurrentTasks
AtCapacity(n) == n >= maxConcurrentTasks

\* a finally block that forgets the counter
ReleaseSlotLeak(n) == n

\* this.concurrentTasks-- in the finally block
ReleaseSlot(n) == n - 1

TaskIds == 1..Len(tasks)

Terminal == {"completed", "failed"}

RunningTasks == {t \in TaskIds : tasks[t].status = "running"}

TotalSteps == LET RECURSIVE Sum(_)
                  Sum(t) == IF t = 0 THEN 0 ELSE Len(tasks[t].steps) + Sum(t - 1)
              IN Sum(Len(tasks))

Ev(type, ref) == [type |-> type, ref |-> ref]

----------------------------------------------------------------------------
\* new Planner(llmClient, toolRegistry)
PlannerInit ==
  /\ tasks = <<>>
  /\ concurrentTasks = 0
  /\ approvalQueue = {}
  /\ gen = <<>>
  /\ approvals = <<>>
  /\ timers = {}
  /\ events = <<>>
  /\ execLog = {}
  /\ notFound = {}
  /\ toolMetrics = [byTask |-> <<>>, direct |-> <<>>]

\* new LLMClient(config)
LLMInit ==
  /\ cache = {}
  /\ chats = <<>>
  /\ now = 0

\* the Task object executeTask creates
NewTask ==
  [status |-> "queued", steps |-> <<>>, error |-> Undefined,
   result |-> NoResult]

Init ==
  /\ PlannerInit
  /\ LLMInit
  /\ drawnTask = NewTask
  /\ messages = <<>>
  /\ registryCalls = <<>>

----------------------------------------------------------------------------
(* The language-model provider: what llmClient.chat can answer             *)

Call(name, args) == [name |-> name, args |-> args]

Response(ok, content, toolCalls) ==
  [ok |-> ok, content |-> content, toolCalls |-> toolCalls]

ProviderFailure == Response(FALSE, "", <<>>)
PlainResponse == Response(TRUE, "Next I will look", <<>>)
DoneResponse == Response(TRUE, "Task complete", <<>>)

ToolCalls ==
  {Call("screenshot", "{}"), Call("exec", "ls"), Call("exec", "rm -rf /"),
   Call("nope", "{}")}

\* a final answer that still asks for a tool, one the registry lacks
DoneWithCall == Response(TRUE, "Task complete", <<Call("nope", "{}")>>)

\* an answer that asks for two tools in one turn
SeveralCalls ==
  Response(TRUE, "Next I will look and run",
           <<Call("screenshot", "{}"), Call("exec", "ls")>>)

Responses ==
  {ProviderFailure, PlainResponse, DoneResponse, DoneWithCall, SeveralCalls}
    \cup {Response(TRUE, "Next I will look", <<c>>) : c \in ToolCalls}

\* Steps, finished or under way, that carry a tool call
ToolSteps ==
  LET RECURSIVE Sum(_)
      Sum(t) == IF t = 0 THEN 0
                ELSE Cardinality({i \in DOMAIN tasks[t].steps :
                                     tasks[t].steps[i].action # Undefined})
                     + (IF gen[t].cur.action # Undefined THEN 1 ELSE 0)
                     + Sum(t - 1)
  IN Sum(Len(tasks))

IsPlainStep(s) == s = [NewStep EXCEPT !.thought = PlainResponse.content]

\* The responses the provider is allowed to give in this run: anything while
\* fewer than MaxTotalSteps steps exist (MaxToolRunSteps once a tool call is
\* part of the run); beyond that, an answer without a tool call for a task
\* that runs alone and has had plain answers only (this is the run that
\* reaches maxIterations). A tool call needs a run of at most MaxToolTasks
\* tasks with fewer than MaxToolRequests tool calls so far; the answer with
\* two calls is the first answer of a run of one task.
ResponseAllowed(t, resp) ==
  /\ \/ TotalSteps < (IF ToolSteps = 0 /\ resp.toolCalls = <<>>
                        THEN MaxTotalSteps ELSE MaxToolRunSteps)
     \/ /\ Len(tasks) = 1
        /\ resp.toolCalls = <<>>
        /\ \A i \in DOMAIN tasks[t].steps : IsPlainStep(tasks[t].steps[i])
  /\ resp.toolCalls # <<>> =>
        Len(tasks) <= MaxToolTasks /\ ToolSteps < MaxToolRequests
  /\ resp = SeveralCalls => Len(tasks) = 1 /\ TotalSteps = 0

----------------------------------------------------------------------------
(* Pieces of Planner.executeTask                                           *)

NewGen ==
  [pc |-> "start", iteration |-> 0, cur |-> NewStep, aid |-> 0,
   closed |-> FALSE]

\* a catch block that records the error and leaves the status
FailTaskKeepsStatus(task, msg) == [task EXCEPT !.error = msg]

\* a catch block that puts the task back in the queue
FailTaskRequeues(task, msg) == [task EXCEPT !.status = "queued", !.error = msg]

\* catch block
FailTask(task, msg) == [task EXCEPT !.status = "failed", !.error = msg]

\* the success path after the loop
CompleteTask(task) ==
  [task EXCEPT !.status = "completed", !.result = extractResult(task.steps)]

\* a step that takes the observation of a failed result but not its error
WithResultDropsError(step, success, data, error) ==
  [step EXCEPT !.result = data,
               !.observation = formatObservation(success, error, data)]

\* ToolResult -> the step's result, observation and error
WithResult(step, success, data, error) ==
  [step EXCEPT !.result = data,
               !.observation = formatObservation(success, error, data),
               !.error = IF success THEN Undefined ELSE error]

\* an insertion at the front of the array
unshift(steps, step) == <<step>> \o steps

\* task.steps.push(step)
push(steps, step) == Append(steps, step)

\* task.steps.push(step); yield step
Yield(t, step) ==
  /\ tasks' = [tasks EXCEPT ![t].steps = push(@, step)]
  /\ gen' = [gen EXCEPT ![t].pc = "yield", ![t].cur = NewStep, ![t].aid = 0]

----------------------------------------------------------------------------
(* executeTask from its call to its first suspension. The first timeout    *)
(* check reads the clock right after startTime was taken and passes.       *)

executeTask ==
  /\ IF AtCapacity(concurrentTasks)
       THEN /\ tasks' = Append(tasks, FailTask(NewTask, "Maximum concurrent tasks reached"))
            /\ gen' = Append(gen, [NewGen EXCEPT !.pc = "done"])
            /\ events' = Append(events, <<Ev("task:created", 0), Ev("task:failed", 0)>>)
            /\ UNCHANGED concurrentTasks
       ELSE /\ tasks' = Append(tasks, [NewTask EXCEPT !.status = "running"])
            /\ gen' = Append(gen, [NewGen EXCEPT !.pc = "chat", !.iteration = 1])
            /\ events' = Append(events, <<Ev("task:created", 0), Ev("task:started", 0)>>)
            /\ concurrentTasks' = concurrentTasks + 1
  /\ toolMetrics' = [toolMetrics EXCEPT !.byTask = Append(@, <<>>)]
  /\ UNCHANGED <<approvalQueue, approvals, timers, execLog, notFound>>
  /\ UNCHANGED <<llmVars, taskVars, registryCalls>>

\* A client submits a task (POST /api/tasks or task:start)
StartTask ==
  /\ toolMetrics.direct = <<>> /\ notFound = {}
  /\ Len(tasks) < (IF ToolSteps = 0 THEN MaxTasks ELSE MaxToolTasks)
  /\ executeTask

----------------------------------------------------------------------------
(* generateNextStep and Planner.executeTool                                *)

\* recordToolMetric(tool, status, duration), called for task t or, with
\* t = 0, for a transport
recordToolMetric(t, tool, status) ==
  IF t = 0
    THEN [toolMetrics EXCEPT !.direct = Append(@, [tool |-> tool, status |-> status])]
    ELSE [toolMetrics EXCEPT !.byTask[t] = Append(@, [tool |-> tool, status |-> status])]

\* One run of tool.execute: who asked for it and whether executeTool let a
\* fault escape
Run(tool, entry, t, aid, threw) ==
  [tool |-> tool, entry |-> entry, task |-> t, aid |-> aid, threw |-> threw]

\* ToolRegistry.executeTool called by the Planner with approved: true, up to
\* the await of tool.execute
CallRegistry(t, step, aid) ==
  IF RegistryGate(step.action, step.actionInput, TRUE) = "execute"
    THEN /\ gen' = [gen EXCEPT ![t].pc = "tool", ![t].cur = step, ![t].aid = aid]
         /\ execLog' = execLog \cup {Run(step.action, "task", t, aid, FALSE)}
         /\ UNCHANGED <<tasks, toolMetrics>>
    ELSE /\ Yield(t, WithResult(step, FALSE, NoResult,
                      RegistryGate(step.action, step.actionInput, TRUE)))
         /\ toolMetrics' = recordToolMetric(t, step.action, "failure")
         /\ UNCHANGED execLog

\* a request whose timer is never armed
TimerNotArmed(ts, id) == ts

\* setTimeout(..., 30000) in requestApproval
setTimeout(ts, id) == ts \cup {id}

\* Planner.requestApproval: register the request, emit, arm the timer
RequestApproval(t, step) ==
  LET id == Len(approvals) + 1 IN
  /\ approvals' = Append(approvals,
        [taskId |-> t, tool |-> step.action, parameters |-> step.actionInput,
         outcomes |-> <<>>, trueReturns |-> 0])
  /\ approvalQueue' = approvalQueue \cup {id}
  /\ timers' = setTimeout(timers, id)
  /\ events' = [events EXCEPT ![t] = Append(@, Ev("approval:requested", id))]
  /\ gen' = [gen EXCEPT ![t].pc = "approval", ![t].cur = step, ![t].aid = id]
  /\ UNCHANGED <<tasks, execLog, toolMetrics>>

\* a dispatch of the last tool call of the turn
LastCall(toolCalls) == toolCalls[Len(toolCalls)]

\* const toolCall = response.toolCalls[0]
FirstCall(toolCalls) == toolCalls[1]

\* generateNextStep from the point where llmClient.chat settles with resp
generateNextStep(t, resp) ==
  /\ gen[t].pc = "chat"
  /\ LET thought == [NewStep EXCEPT !.thought = resp.content]
         call == FirstCall(resp.toolCalls)
         step == [thought EXCEPT !.action = call.name, !.actionInput = call.args]
     IN
     IF ~resp.ok
       THEN /\ Yield(t, [NewStep EXCEPT !.error = "provider error",
                                        !.observation = Obs("Error: ", "provider error")])
            /\ UNCHANGED <<approvalQueue, approvals, timers, events, execLog,
                           toolMetrics>>
     ELSE IF resp.toolCalls = <<>>
       THEN /\ Yield(t, thought)
            /\ UNCHANGED <<approvalQueue, approvals, timers, events, execLog,
                           toolMetrics>>
     ELSE IF call.name \notin RegisteredTools
       THEN /\ Yield(t, WithResult(step, FALSE, NoResult, "Tool not found"))
            /\ UNCHANGED <<approvalQueue, approvals, timers, events, execLog,
                           toolMetrics>>
     ELSE IF requiresApproval(call.name)
       THEN RequestApproval(t, step)
       ELSE /\ CallRegistry(t, step, 0)
            /\ UNCHANGED <<approvalQueue, approvals, timers, events>>
  /\ UNCHANGED <<concurrentTasks, notFound>>
  /\ UNCHANGED <<llmVars, taskVars, registryCalls>>

\* llmClient.chat settles for task t
ChatReturns(t, resp) ==
  /\ gen[t].pc = "chat"
  /\ ResponseAllowed(t, resp)
  /\ generateNextStep(t, resp)

\* What tool.execute can do: resolve with a result, throw an Error that has
\* a message, or throw a value without one (throw undefined, a promise
\* rejected with no reason)
ToolOutcomes == {"success", "throw", "throwNullish"}

\* The catch block of ToolRegistry.executeTool reads error.message: of a
\* thrown undefined this read throws a TypeError out of executeTool.
NoMessageFault == "Cannot read properties of undefined"

EscapesRegistry(outcome) == outcome = "throwNullish"

\* tool.execute settles for task t
ToolReturns(t, outcome) ==
  /\ gen[t].pc = "tool"
  /\ LET g == gen[t]
         run == Run(g.cur.action, "task", t, g.aid, FALSE)
     IN
     /\ Yield(t, IF outcome = "success"
                   THEN WithResult(g.cur, TRUE, Payload(g.cur.action), Undefined)
                 ELSE IF EscapesRegistry(outcome)
                   THEN [g.cur EXCEPT !.error = NoMessageFault,
                                      !.observation = Obs("Error: ", NoMessageFault)]
                   ELSE WithResult(g.cur, FALSE, NoResult, "tool error"))
     /\ execLog' = IF EscapesRegistry(outcome)
                     THEN (execLog \ {run}) \cup {[run EXCEPT !.threw = TRUE]}
                     ELSE execLog
     /\ toolMetrics' = recordToolMetric(t, g.cur.action,
                           IF outcome = "success" THEN "success" ELSE "failure")
  /\ UNCHANGED <<concurrentTasks, approvalQueue, approvals, timers, events,
                 notFound>>
  /\ UNCHANGED <<llmVars, taskVars, registryCalls>>

----------------------------------------------------------------------------
(* The approval queue                                                      *)

\* a lookup that still finds a request after it was resolved
EverRequested(id) == id \in DOMAIN approvals

\* approvalQueue.get(id) is defined
IsPending(id) == id \in approvalQueue

\* a timer callback that resolves without looking at the queue
TimerAlwaysResolves(id) == TRUE

\* a timer callback that never resolves
TimerNeverResolves(id) == FALSE

\* approvalQueue.has(id), as the timer callback asks it
TimerFindsPending(id) == id \in approvalQueue

\* a callback that leaves the request in the queue
deleteNever(queue, id) == queue

\* this.approvalQueue.delete(approvalRequest.id)
delete(queue, id) == queue \ {id}

\* The request's callback or the timer body: approvalQueue.delete(id);
\* resolve(approved); and then the code of Planner.executeTool that was
\* awaiting the promise. `returnsTrue` is 1 when approveAction/denyAction
\* goes on to return true, 0 for the timer body.
Resolve(id, approved, outcome, returnsTrue) ==
  LET t == approvals[id].taskId IN
  /\ approvalQueue' = delete(approvalQueue, id)
  /\ approvals' = [approvals EXCEPT ![id].outcomes = Append(@, outcome),
                                    ![id].trueReturns = @ + returnsTrue]
  /\ IF Len(approvals[id].outcomes) > 0
       THEN UNCHANGED <<tasks, gen, execLog, toolMetrics>>   \* the promise is already settled
     ELSE IF approved
       THEN CallRegistry(t, gen[t].cur, id)
       ELSE /\ Yield(t, WithResult(gen[t].cur, FALSE, NoResult,
                                   "Tool execution denied by user"))
            /\ UNCHANGED <<execLog, toolMetrics>>

\* The ids a client can send: those of the requests made so far and one
\* (0) that is never registered.
ApprovalIds == 0..Len(approvals)

approveAction(id) ==
  /\ IF IsPending(id)
       THEN /\ Resolve(id, TRUE, "Approved", 1)
            /\ events' = [events EXCEPT ![approvals[id].taskId] =
                                   Append(@, Ev("approval:granted", id))]
            /\ UNCHANGED notFound
       ELSE /\ Len(tasks) <= 1      \* the call changes nothing: one task shows it
            /\ notFound' = {id}
            /\ UNCHANGED <<tasks, gen, approvalQueue, approvals, events, execLog,
                           toolMetrics>>
  /\ UNCHANGED <<concurrentTasks, timers>>
  /\ UNCHANGED <<llmVars, taskVars, registryCalls>>

denyAction(id) ==
  /\ IF IsPending(id)
       THEN /\ Resolve(id, FALSE, "Denied", 1)
            /\ events' = [events EXCEPT ![approvals[id].taskId] =
                                   Append(@, Ev("approval:denied", id))]
            /\ UNCHANGED notFound
       ELSE /\ Len(tasks) <= 1      \* the call changes nothing: one task shows it
            /\ notFound' = {id}
            /\ UNCHANGED <<tasks, gen, approvalQueue, approvals, events, execLog,
                           toolMetrics>>
  /\ UNCHANGED <<concurrentTasks, timers>>
  /\ UNCHANGED <<llmVars, taskVars, registryCalls>>

\* The 30 s timer of request id fires
ApprovalTimeout(id) ==
  /\ id \in timers
  /\ timers' = timers \ {id}
  /\ IF TimerFindsPending(id)
       THEN Resolve(id, FALSE, "TimedOut", 0)
       ELSE UNCHANGED <<tasks, gen, approvalQueue, approvals, execLog, toolMetrics>>
  /\ UNCHANGED <<concurrentTasks, events, notFound>>
  /\ UNCHANGED <<llmVars, taskVars, registryCalls>>

----------------------------------------------------------------------------
(* The consumer of the generator                                           *)

\* Two consumers exist. The WebSocket task:start handler asks for every
\* step. POST /api/tasks counts the steps it received and leaves its loop
\* when it holds HttpStepLimit of them, that is at the yield of step number
\* HttpStepLimit. Up to that yield the two behave alike, so which of them
\* drives task t is only settled there: ConsumerBreak is the POST handler,
\* ConsumerNext at that yield the WebSocket handler.
ConsumerStops(t) == Len(tasks[t].steps) = HttpStepLimit

\* a loop whose condition does not look at the iteration counter
LoopIgnoresIteration(iteration) == TRUE

\* a loop that allows one iteration more
LoopGoesOnOneMore(iteration) == iteration <= maxIterations

\* iteration < this.maxIterations in the while condition
LoopGoesOn(iteration) == iteration < maxIterations

\* The consumer asks for the next step: the generator resumes after its
\* yield and runs to its next suspension or to its end.
ConsumerNext(t, late) ==
  /\ gen[t].pc = "yield"
  /\ LET task == tasks[t]
         g == gen[t]
         verdict == isTaskComplete(task.steps)
         stepEv == Append(events[t], Ev("task:step", Len(task.steps)))
     IN
     IF verdict = "throw"
       THEN /\ tasks' = [tasks EXCEPT ![t] = FailTask(task, "Too many consecutive errors")]
            /\ gen' = [gen EXCEPT ![t].pc = "done"]
            /\ events' = [events EXCEPT ![t] = Append(@, Ev("task:failed", 0))]
            /\ concurrentTasks' = ReleaseSlot(concurrentTasks)
     ELSE IF verdict = "continue" /\ LoopGoesOn(g.iteration)
       THEN IF late
              THEN /\ tasks' = [tasks EXCEPT ![t] = FailTask(task, "Task execution timeout")]
                   /\ gen' = [gen EXCEPT ![t].pc = "done", ![t].iteration = @ + 1]
                   /\ events' = [events EXCEPT ![t] = Append(stepEv, Ev("task:failed", 0))]
                   /\ concurrentTasks' = ReleaseSlot(concurrentTasks)
              ELSE /\ gen' = [gen EXCEPT ![t].pc = "chat", ![t].iteration = @ + 1]
                   /\ events' = [events EXCEPT ![t] = stepEv]
                   /\ UNCHANGED <<tasks, concurrentTasks>>
     ELSE IF g.iteration >= maxIterations
       THEN /\ tasks' = [tasks EXCEPT ![t] = FailTask(task, "Maximum iterations reached")]
            /\ gen' = [gen EXCEPT ![t].pc = "done"]
            /\ events' = [events EXCEPT ![t] = Append(stepEv, Ev("task:failed", 0))]
            /\ concurrentTasks' = ReleaseSlot(concurrentTasks)
       ELSE /\ tasks' = [tasks EXCEPT ![t] = CompleteTask(task)]
            /\ gen' = [gen EXCEPT ![t].pc = "done"]
            /\ events' = [events EXCEPT ![t] = Append(stepEv, Ev("task:completed", 0))]
            /\ concurrentTasks' = ReleaseSlot(concurrentTasks)
  /\ UNCHANGED <<approvalQueue, approvals, timers, execLog, notFound, toolMetrics>>
  /\ UNCHANGED <<llmVars, taskVars, registryCalls>>

\* The consumer leaves its loop (break): the runtime calls return() on the
\* generator, which is suspended at its yield; only the finally block runs.
ConsumerBreak(t) ==
  /\ gen[t].pc = "yield"
  /\ ConsumerStops(t)
  /\ gen' = [gen EXCEPT ![t].pc = "done", ![t].closed = TRUE]
  /\ concurrentTasks' = ReleaseSlot(concurrentTasks)
  /\ UNCHANGED <<tasks, approvalQueue, approvals, timers, events, execLog, notFound,
                 toolMetrics>>
  /\ UNCHANGED <<llmVars, taskVars, registryCalls>>

----------------------------------------------------------------------------
(* Entry points that call ToolRegistry.executeTool directly                *)

\* registry.executeTool(name, params, {approved: true}) from a transport.
\* The call reads and writes nothing of the Planner, so its interleavings
\* with tasks add nothing: it is explored in the runs that have no task.
DirectExecute(entry, name, params, outcome) ==
  /\ tasks = <<>>
  /\ Len(toolMetrics.direct) < MaxDirectCalls
  /\ IF RegistryGate(name, params, TRUE) = "execute"
       THEN /\ execLog' = execLog \cup
                  {Run(name, entry, 0, 0, EscapesRegistry(outcome))}
            /\ toolMetrics' = recordToolMetric(0, name,
                    IF outcome = "success" THEN "success" ELSE "failure")
       ELSE /\ toolMetrics' = recordToolMetric(0, name, "failure")
            /\ UNCHANGED execLog
  /\ UNCHANGED <<tasks, concurrentTasks, approvalQueue, gen, approvals, timers,
                 events, notFound>>
  /\ UNCHANGED <<llmVars, taskVars, registryCalls>>

\* POST /api/tools/:toolName/execute
HttpToolNames == {"exec", "screenshot", "nope"}

HttpExecuteTool(name, params, outcome) == DirectExecute("http", name, params, outcome)

\* socket.on('desktop:click' | 'desktop:type' | 'desktop:key' | 'desktop:screenshot')
WsDesktopTools == {"click", "type", "key", "screenshot"}

WsDesktop(name, params, outcome) == DirectExecute("ws", name, params, outcome)

----------------------------------------------------------------------------
(* ToolRegistry.executeTool for any caller: any name, any parameters, a    *)
(* context with or without approved                                        *)

\* tool.validate is defined
hasValidator(name) == name = "exec"

\* The conditions executeTool evaluated, in the order it evaluated them,
\* with "execute" last when it called tool.execute
ChecksRun(name, params, approved) ==
  IF name \notin RegisteredTools THEN <<"lookup">>
  ELSE IF ~SchemaAccepts(name, params) THEN <<"lookup", "schema">>
  ELSE (IF hasValidator(name) THEN <<"lookup", "schema", "validate">>
        ELSE <<"lookup", "schema">>)
       \o (IF hasValidator(name) /\ ~CustomValidatorAccepts(name, params) THEN <<>>
           ELSE IF requiresApproval(name) /\ ~approved THEN <<"approval">>
           ELSE <<"approval", "execute">>)

ToolNames == RegisteredTools \cup {"nope"}

\* registry.executeTool(name, params, {approved}) and what tool.execute
\* did when it was called
executeTool(name, params, approved, outcome) ==
  /\ Len(registryCalls) < MaxRegistryCalls
  /\ LET gate == RegistryGate(name, params, approved) IN
     /\ gate # "execute" => outcome = "success"    \* tool.execute is not called
     /\ registryCalls' = Append(registryCalls,
           [name |-> name, params |-> params, approved |-> approved,
            checks |-> ChecksRun(name, params, approved),
            executed |-> gate = "execute",
            threw |-> gate = "execute" /\ EscapesRegistry(outcome),
            success |-> gate = "execute" /\ outcome = "success",
            error |-> IF gate # "execute" THEN gate
                      ELSE IF outcome = "success" THEN Undefined
                      ELSE IF EscapesRegistry(outcome) THEN NoMessageFault
                      ELSE "tool error"])
  /\ UNCHANGED <<plannerVars, llmVars, taskVars>>

RegistryNext ==
  \E n \in ToolNames, p \in ParamValues, a \in BOOLEAN, o \in ToolOutcomes :
     executeTool(n, p, a, o)

RegistrySpec == Init /\ [][RegistryNext]_vars

----------------------------------------------------------------------------
Next ==
  \/ StartTask
  \/ \E t \in TaskIds, r \in Responses : ChatReturns(t, r)
  \/ \E t \in TaskIds, o \in ToolOutcomes : ToolReturns(t, o)
  \/ \E t \in TaskIds, late \in BOOLEAN : ConsumerNext(t, late)
  \/ \E t \in TaskIds : ConsumerBreak(t)
  \/ \E id \in ApprovalIds : approveAction(id)
  \/ \E id \in ApprovalIds : denyAction(id)
  \/ \E id \in timers : ApprovalTimeout(id)
  \/ \E n \in HttpToolNames, p \in ParamValues, o \in ToolOutcomes :
        HttpExecuteTool(n, p, o)
  \/ \E n \in WsDesktopTools, p \in ParamValues, o \in ToolOutcomes :
        WsDesktop(n, p, o)

Spec == Init /\ [][Next]_vars

----------------------------------------------------------------------------
(* Runs in which every consumer keeps asking for steps (the WebSocket      *)
(* task:start handler), every provider call and tool execution returns and *)
(* every approval timer fires. The provider is never out of answers here:  *)
(* beyond what ResponseAllowed grants it gives its final answer.           *)

\* Tasks are submitted one after the other here: whether a loop ends does
\* not depend on the other loops.
LiveStartTask ==
  /\ notFound = {}
  /\ Len(tasks) < MaxToolTasks
  /\ \A t \in TaskIds : gen[t].pc = "done"
  /\ executeTask

LiveChatReturns(t, resp) ==
  /\ gen[t].pc = "chat"
  /\ ResponseAllowed(t, resp) \/ resp = DoneResponse
  /\ generateNextStep(t, resp)

LiveNext ==
  \/ LiveStartTask
  \/ \E t \in TaskIds, r \in Responses : LiveChatReturns(t, r)
  \/ \E t \in TaskIds, o \in ToolOutcomes : ToolReturns(t, o)
  \/ \E t \in TaskIds, late \in BOOLEAN : ConsumerNext(t, late)
  \/ \E id \in ApprovalIds : approveAction(id)
  \/ \E id \in ApprovalIds : denyAction(id)
  \/ \E id \in timers : ApprovalTimeout(id)

Fairness ==
  /\ \A t \in 1..MaxToolTasks :
        /\ WF_vars(t \in TaskIds /\ \E r \in Responses : LiveChatReturns(t, r))
        /\ WF_vars(t \in TaskIds /\ \E o \in ToolOutcomes : ToolReturns(t, o))
        /\ WF_vars(t \in TaskIds /\ \E late \in BOOLEAN : ConsumerNext(t, late))
  /\ \A id \in 1..MaxToolRequests : WF_vars(ApprovalTimeout(id))

LiveSpec == Init /\ [][LiveNext]_vars /\ Fairness

TypeOK ==
  /\ concurrentTasks \in Int
  /\ Len(gen) = Len(tasks) /\ Len(events) = Len(tasks)
  /\ approvalQueue \subseteq DOMAIN approvals

----------------------------------------------------------------------------
(* LLMClient: chat, its response cache and its fallback models. A chat     *)
(* call runs to its first await (the request to the provider) or, on a     *)
(* cache hit, to its return; when the provider settles, the call runs to   *)
(* the next request or to its end.                                         *)

stdTTL == 300          \* new NodeCache({ stdTTL: 300, ... }), in seconds

MaxChats == 2          \* chat calls in a run
MaxFallbacks == 1      \* entries of config.openRouterFallbackModels
MaxTicks == 2          \* steps of the clock in a run
TickSeconds == 200     \* what one step of the clock adds to Date.now()

\* const models = [this.config.openRouterModel, ...this.fallbackModels],
\* by position
models == 1..(1 + MaxFallbacks)

\* getCacheKey(messages, tools): two different payloads
CacheKeys == {"k1", "k2"}

\* How a request to the provider settles: with a completion, which carries
\* a usage object or not, or with an error of some HTTP status
Completion(usage) == [ok |-> TRUE, usage |-> usage, status |-> 0]

Rejection(status) == [ok |-> FALSE, usage |-> FALSE, status |-> status]

FailStatuses == {400, 429, 503, 504}

ProviderOutcomes ==
  {Completion(TRUE), Completion(FALSE)} \cup {Rejection(s) : s \in FailStatuses}

\* The outcomes explored in a run with more than one call
QuietOutcomes == {Completion(TRUE), Rejection(400), Rejection(429)}

\* a retry rule that goes on to the next model after any error
shouldRetryAlways(status) == TRUE

\* LLMClient.shouldRetry
shouldRetry(status) == status \in {429, 500, 502, 503}

NoResponse == [chat |-> 0, model |-> 0]

\* parseResponse(completion): the answer model m gave to call c
ParsedResponse(c, m) == [chat |-> c, model |-> m]

NoError == [kind |-> "none", of |-> <<0, 0>>]

\* The error the SDK throws for a response of this status from model m
ApiError(status, m) == [kind |-> "api", of |-> <<status, m>>]

\* new Error(`All models failed. Last error: ${lastError?.message}`)
AllModelsFailed(lastError) == [kind |-> "aggregate", of |-> lastError.of]

LLMMetric(m, status) == [model |-> m, status |-> status]

NewChat(key, stream) ==
  [key |-> key, stream |-> stream, startedAt |-> now, pc |-> "await",
   model |-> 1, tried |-> <<>>, metrics |-> <<>>, result |-> NoResponse,
   error |-> NoError]

\* NodeCache keeps an entry until Date.now() is past its expiry
Expired(e) == e.t < now

\* this.cache.get(cacheKey): the live entries under the key
cacheGet(key) == {e \in cache : e.key = key /\ ~Expired(e)}

\* this.cache.set(cacheKey, response)
cacheSet(key, response) ==
  {e \in cache : e.key # key} \cup {[key |-> key, value |-> response, t |-> now + stdTTL]}

ChatsInFlight == {c \in DOMAIN chats : chats[c].pc \in {"await", "stream"}}

\* a lookup for every call, streaming or not
consultsCacheAlways(stream) == TRUE

\* if (!stream) { const cached = this.cache.get(cacheKey); ... }
consultsCache(stream) == ~stream

\* a client that also stores what a failed request left behind
cacheAfterAnyOutcome(ch, outcome, response) ==
  IF ~ch.stream THEN cacheSet(ch.key, response) ELSE cache

\* The cache after the request of call ch settled: this.cache.set(cacheKey,
\* response) is reached in the non-streaming branch of the try block only
cacheAfter(ch, outcome, response) ==
  IF outcome.ok /\ ~ch.stream THEN cacheSet(ch.key, response) ELSE cache

\* One entry of a call's history: the model asked, how the attempt ended
\* and where it ended (in create, or while the stream was read)
Tried(m, outcome, during) == [model |-> m, outcome |-> outcome, during |-> during]

\* LLMClient.chat(messages, tools, stream) from its call to the first
\* request or to the return of the cached response. A lookup that finds an
\* expired entry deletes it. The runs explored have their streamed calls
\* among the first two.
chat(key, stream) ==
  /\ Len(chats) < MaxChats
  /\ stream => Len(chats) <= 1
  /\ \A c \in DOMAIN chats : \A k \in DOMAIN chats[c].tried :
        chats[c].tried[k].outcome \in QuietOutcomes
  /\ IF consultsCache(stream) /\ cacheGet(key) # {}
       THEN /\ chats' = Append(chats,
                  [NewChat(key, stream) EXCEPT
                     !.pc = "returned", !.model = 0,
                     !.result = (CHOOSE e \in cacheGet(key) : TRUE).value])
            /\ UNCHANGED cache
       ELSE /\ chats' = Append(chats, NewChat(key, stream))
            /\ cache' = IF consultsCache(stream)
                          THEN {e \in cache : e.key # key}
                          ELSE cache
  /\ UNCHANGED now
  /\ UNCHANGED <<plannerVars, taskVars, registryCalls>>

\* client.chat.completions.create settles for call c: the rest of the try
\* block, or the catch block and the next request (or the end of the loop)
ProviderSettles(c, outcome) ==
  /\ chats[c].pc = "await"
  /\ Len(chats) = 1 \/ outcome \in QuietOutcomes
  /\ LET ch == chats[c]
         m == ch.model
         tried == Append(ch.tried, Tried(m, outcome, "create"))
         err == ApiError(outcome.status, m)
         failed == [ch EXCEPT !.tried = tried,
                              !.metrics = Append(@, LLMMetric(m, "failure"))]
     IN
     /\ chats' = [chats EXCEPT ![c] =
           IF outcome.ok /\ ch.stream
             THEN [ch EXCEPT !.pc = "stream"]
           ELSE IF outcome.ok
             THEN [ch EXCEPT !.pc = "returned", !.tried = tried,
                             !.result = ParsedResponse(c, m),
                             !.metrics = IF outcome.usage
                                           THEN Append(@, LLMMetric(m, "success"))
                                           ELSE @]
           ELSE IF ~shouldRetry(outcome.status)
             THEN [failed EXCEPT !.pc = "threw", !.error = err]
           ELSE IF m + 1 \in models
             THEN [failed EXCEPT !.model = m + 1]
             ELSE [failed EXCEPT !.pc = "threw", !.error = AllModelsFailed(err)]]
     /\ cache' = cacheAfter(ch, outcome, ParsedResponse(c, m))
  /\ UNCHANGED now
  /\ UNCHANGED <<plannerVars, taskVars, registryCalls>>

\* handleStreamingResponse(completion, model, startTime) ends for call c.
\* chat returns its promise without awaiting it (return
\* this.handleStreamingResponse(...)), so the call has left the try block
\* and the loop over the models: the stream's end is the call's return and
\* an error thrown while the chunks are read is the call's rejection.
StreamSettles(c, outcome) ==
  /\ chats[c].pc = "stream"
  /\ Len(chats) = 1 \/ outcome \in QuietOutcomes
  /\ LET ch == chats[c]
         m == ch.model
         tried == Append(ch.tried, Tried(m, outcome, "stream"))
     IN
     chats' = [chats EXCEPT ![c] =
       IF outcome.ok
         THEN [ch EXCEPT !.pc = "returned", !.tried = tried,
                         !.result = ParsedResponse(c, m),
                         !.metrics = IF outcome.usage
                                       THEN Append(@, LLMMetric(m, "success"))
                                       ELSE @]
         ELSE [ch EXCEPT !.pc = "threw", !.tried = tried,
                         !.error = ApiError(outcome.status, m)]]
  /\ UNCHANGED <<cache, now>>
  /\ UNCHANGED <<plannerVars, taskVars, registryCalls>>

\* Time passes. A call in flight reads the clock only to stamp its cache
\* entry, so the clock is moved between calls.
Tick ==
  /\ now < MaxTicks * TickSeconds
  /\ ChatsInFlight = {}
  /\ now' = now + TickSeconds
  /\ UNCHANGED <<cache, chats>>
  /\ UNCHANGED <<plannerVars, taskVars, registryCalls>>

LLMNext ==
  \/ \E k \in CacheKeys, s \in BOOLEAN : chat(k, s)
  \/ \E c \in DOMAIN chats, o \in ProviderOutcomes : ProviderSettles(c, o)
  \/ \E c \in DOMAIN chats, o \in ProviderOutcomes : StreamSettles(c, o)
  \/ Tick

LLMSpec == Init /\ [][LLMNext]_vars

----------------------------------------------------------------------------
(* What the Planner computes from the steps of one task: the result of a   *)
(* completed task (extractResult) and the conversation of the next         *)
(* iteration (buildMessages). The task is drawn from the step sequences a  *)
(* loop can have produced; the actions are the two places of the loop that *)
(* read them.                                                              *)

memoryWindow == 10

MaxDrawnSteps == 3     \* steps of a drawn task whose steps are of every kind
MaxPromptSteps == 12   \* steps of a drawn task whose steps are of two kinds

PlainStep == [NewStep EXCEPT !.thought = PlainResponse.content]

\* the step of generateNextStep once the response carries a tool call
ToolStep(name, args) ==
  [PlainStep EXCEPT !.action = name, !.actionInput = args]

ScreenshotStep ==
  WithResult(ToolStep("screenshot", "{}"), TRUE, Payload("screenshot"), Undefined)

\* The steps generateNextStep can return: a thought alone; a tool that
\* succeeded with data, with no data or with empty data; a tool that failed,
\* without data or with it; a provider failure
StepShapes ==
  {PlainStep,
   ScreenshotStep,
   WithResult(ToolStep("exec", "ls"), TRUE, Payload("exec"), Undefined),
   WithResult(ToolStep("type", "ls"), TRUE, NoResult, Undefined),
   WithResult(ToolStep("custom", "ls"), TRUE, EmptyPayload, Undefined),
   WithResult(ToolStep("exec", "ls"), FALSE, NoResult, "tool error"),
   WithResult(ToolStep("custom", "ls"), FALSE, Payload("custom"), "tool error"),
   [NewStep EXCEPT !.error = "provider error",
                   !.observation = Obs("Error: ", "provider error")]}

\* the same steps with a thought that ends the loop
FinalShapes ==
  {[s EXCEPT !.thought = DoneResponse.content] : s \in {x \in StepShapes : x.thought # ""}}

\* the loop went on after every step but the last
LoopProduces(steps) ==
  \A n \in 1..(Len(steps) - 1) : isTaskComplete(SubSeq(steps, 1, n)) = "continue"

DrawnSteps ==
  {s \in UNION {[1..n -> StepShapes \cup FinalShapes] : n \in 1..MaxDrawnSteps} :
      LoopProduces(s)}
  \cup UNION {[1..n -> {PlainStep, ScreenshotStep}] : n \in 0..MaxPromptSteps}

\* a task suspended at the yield of its last step
DrawnInit ==
  /\ PlannerInit
  /\ LLMInit
  /\ \E s \in DrawnSteps : drawnTask = [NewTask EXCEPT !.status = "running", !.steps = s]
  /\ messages = <<>>
  /\ registryCalls = <<>>

\* one entry of the conversation; `step` is the step it renders (0: none)
Message(role, lead, body, extra, step) ==
  [role |-> role, lead |-> lead, body |-> body, extra |-> extra, step |-> step]

SystemDirective == Message("system", "", "SYSTEM_PROMPTS.planner", Undefined, 0)

TaskInstruction == Message("user", "Task: ", "instruction", Undefined, 0)

NextActionPrompt == Message("system", "", "Based on the observations so far", Undefined, 0)

\* if (step.observation)
HasObservation(s) ==
  s.observation.prefix # "" \/ s.observation.text \notin {Undefined, ""}

\* a window that keeps every step
WholeHistory(steps) == 1

\* task.steps.slice(-this.memoryWindow): the index of the first step kept
WindowStart(steps) ==
  IF Len(steps) > memoryWindow THEN Len(steps) - memoryWindow + 1 ELSE 1

\* the loop over recentSteps, from step i on
RECURSIVE RenderSteps(_, _)
RenderSteps(steps, i) ==
  IF i > Len(steps) THEN <<>>
  ELSE (IF steps[i].thought # ""
          THEN <<Message("assistant", "THOUGHT: ", steps[i].thought, steps[i].action, i)>>
          ELSE <<>>)
       \o (IF HasObservation(steps[i])
             THEN <<Message("system", "OBSERVATION: ", steps[i].observation.text,
                            steps[i].observation.prefix, i)>>
             ELSE <<>>)
       \o RenderSteps(steps, i + 1)

\* Planner.buildMessages
buildMessages(steps) ==
  <<SystemDirective, TaskInstruction>>
    \o RenderSteps(steps, WindowStart(steps))
    \o <<NextActionPrompt>>

\* generateNextStep builds the conversation for the next iteration
BuildConversation ==
  /\ drawnTask.status = "running"
  /\ isTaskComplete(drawnTask.steps) = "continue"
  /\ LoopGoesOn(Len(drawnTask.steps))
  /\ messages' = buildMessages(drawnTask.steps)
  /\ UNCHANGED drawnTask
  /\ UNCHANGED <<plannerVars, llmVars, registryCalls>>

\* the loop is left with isComplete: the success path of executeTask
CompleteDrawn ==
  /\ drawnTask.status = "running"
  /\ isTaskComplete(drawnTask.steps) = "complete"
  /\ Len(drawnTask.steps) < maxIterations
  /\ drawnTask' = CompleteTask(drawnTask)
  /\ UNCHANGED messages
  /\ UNCHANGED <<plannerVars, llmVars, registryCalls>>

DrawnNext == BuildConversation \/ CompleteDrawn

DrawnSpec == DrawnInit /\ [][DrawnNext]_vars

----------------------------------------------------------------------------
(* Vocabulary of the properties                                            *)

HasEvent(t, type) == \E i \in DOMAIN events[t] : events[t][i].type = type

Admitted(t) == HasEvent(t, "task:started")

\* the generator of task t has been started and has not finished
Executing(t) == Admitted(t) /\ gen[t].pc # "done"

Rejected(t) == tasks[t].error = "Maximum concurrent tasks reached"

LastStep(t) == tasks[t].steps[Len(tasks[t].steps)]

\* the consumer of task t leaves its loop in this step
ConsumerStopsNow(t) == ~gen[t].closed /\ gen'[t].closed

----------------------------------------------------------------------------
\* C1: in every reachable state the number of tasks whose status is Running
\* is at most maxConcurrentTasks.
C1_RunningWithinCeiling == Cardinality(RunningTasks) <= maxConcurrentTasks

\* C2: the counter equals the number of admitted tasks whose loop has not
\* exited (one increment per admission, one decrement per exit, whatever the
\* exit path), so it is never negative, never above the ceiling, and 0 when
\* no admitted task is executing.
C2_CounterMatchesExecuting ==
  /\ concurrentTasks = Cardinality({t \in TaskIds : Executing(t)})
  /\ concurrentTasks >= 0
  /\ concurrentTasks <= maxConcurrentTasks

C2_Witness ==
  /\ concurrentTasks = 0
  /\ \E t \in TaskIds : gen[t].closed /\ tasks[t].status = "running"

C2_WitnessCompleted ==
  /\ concurrentTasks = 0
  /\ \E t \in TaskIds : tasks[t].status = "completed"

C2_WitnessTimeout ==
  /\ concurrentTasks = 0
  /\ \E t \in TaskIds : tasks[t].error = "Task execution timeout"

C2_WitnessIterationCap ==
  /\ concurrentTasks = 0
  /\ \E t \in TaskIds : tasks[t].error = "Maximum iterations reached"

C2_WitnessErrorAbort ==
  /\ concurrentTasks = 0
  /\ \E t \in TaskIds : tasks[t].error = "Too many consecutive errors"

\* C3: a task submitted while the counter is at the ceiling is Failed with
\* the capacity error in that same call, with no step, no task-started
\* event and the counter unchanged; it never changes afterwards (it is never
\* Running, gets no step, releases no slot).
C3_RejectedAtCapacity ==
  [][/\ (concurrentTasks >= maxConcurrentTasks /\ Len(tasks') = Len(tasks) + 1) =>
          /\ tasks'[Len(tasks')] = FailTask(NewTask, "Maximum concurrent tasks reached")
          /\ events'[Len(tasks')] = <<Ev("task:created", 0), Ev("task:failed", 0)>>
          /\ gen'[Len(tasks')].pc = "done"
          /\ concurrentTasks' = concurrentTasks
     /\ \A t \in TaskIds : Rejected(t) =>
          /\ tasks'[t] = tasks[t] /\ gen'[t] = gen[t] /\ events'[t] = events[t]
          /\ ~Admitted(t) /\ tasks[t].steps = <<>>]_vars

C3_Witness ==
  /\ concurrentTasks = maxConcurrentTasks
  /\ \E t \in TaskIds : Rejected(t) /\ tasks[t].status = "failed"

\* C4: when the consumer of a task stops iterating, the task's loop is not
\* ended by it: afterwards the loop is still running or the task is already
\* Completed or Failed.
C4_LoopOutlivesConsumer ==
  [][\A t \in TaskIds : ConsumerStopsNow(t) =>
        (gen'[t].pc # "done" \/ tasks'[t].status \in Terminal)]_vars

\* C5: a task whose generator is exhausted is Completed or Failed.
C5_ExhaustedIsTerminal ==
  \A t \in TaskIds : gen[t].pc = "done" => tasks[t].status \in Terminal

----------------------------------------------------------------------------
(* The approval queue                                                      *)

Owner(id) == approvals[id].taskId

Denial == "Tool execution denied by user"

\* the 30 s timer of request id fires in this step
TimerFiresNow(id) == id \in timers /\ id \notin timers'

\* C6: a request is pending exactly as long as it has no outcome and its
\* tool invocation is waiting for it; it gets at most one outcome, the one
\* that removes it; the timer firing after a decision changes nothing.
C6_ResolvedExactlyOnce ==
  /\ [](\A id \in DOMAIN approvals :
          /\ Len(approvals[id].outcomes) <= 1
          /\ id \in approvalQueue <=> approvals[id].outcomes = <<>>
          /\ id \in approvalQueue <=>
               (gen[Owner(id)].pc = "approval" /\ gen[Owner(id)].aid = id))
  /\ [][\A id \in DOMAIN approvals :
          /\ (id \in approvalQueue /\ id \notin approvalQueue') =>
                Len(approvals'[id].outcomes) = 1
          /\ id \notin approvalQueue => id \notin approvalQueue'
          /\ (TimerFiresNow(id) /\ id \notin approvalQueue) =>
                UNCHANGED <<tasks, gen, approvalQueue, approvals, events,
                            execLog, concurrentTasks>>]_vars

C6_Witness ==
  \E id \in DOMAIN approvals :
    /\ approvals[id].outcomes \in {<<"Approved">>, <<"Denied">>}
    /\ id \notin timers

\* C7: approveAction / denyAction for a request that is not pending returns
\* false and changes nothing (no event, no change of the queue or of a
\* task); a call returns true only by removing a pending request, so at most
\* one does per request, and none does once the timeout has resolved it.
C7_DecisionOnlyWhilePending ==
  /\ [](\A id \in DOMAIN approvals :
          /\ approvals[id].trueReturns <= 1
          /\ approvals[id].outcomes = <<"TimedOut">> => approvals[id].trueReturns = 0)
  /\ [][/\ \A id \in ApprovalIds :
             (id \notin approvalQueue /\ id \in notFound' \ notFound) =>
                UNCHANGED <<tasks, gen, approvalQueue, approvals, events,
                            execLog, concurrentTasks, timers>>
        /\ \A id \in DOMAIN approvals :
             approvals'[id].trueReturns # approvals[id].trueReturns =>
                (id \in approvalQueue /\ id \notin approvalQueue')
        /\ \A t \in TaskIds : \A i \in DOMAIN events'[t] :
             (i > Len(events[t]) /\
              events'[t][i].type \in {"approval:granted", "approval:denied"}) =>
                (events'[t][i].ref \in approvalQueue /\
                 approvals'[events'[t][i].ref].trueReturns = 1)]_vars

C7_Witness ==
  \E id \in DOMAIN approvals :
    /\ id \in notFound
    /\ approvals[id].outcomes = <<"TimedOut">>

C7_WitnessDecidedTwice ==
  \E id \in DOMAIN approvals :
    /\ id \in notFound
    /\ approvals[id].trueReturns = 1

\* C8: when the timer of a pending request fires, the request is removed
\* and resolved as denied: the tool is not executed, the step is appended
\* with the denial as its error and observation, and the generator goes on
\* to its yield; a pending request always has its timer armed.
C8_TimeoutDenies ==
  /\ [](approvalQueue \subseteq timers)
  /\ [][\A id \in DOMAIN approvals :
          (id \in approvalQueue /\ TimerFiresNow(id)) =>
             /\ id \notin approvalQueue'
             /\ approvals'[id].outcomes = <<"TimedOut">>
             /\ execLog' = execLog
             /\ tasks'[Owner(id)].steps =
                  Append(tasks[Owner(id)].steps,
                         [gen[Owner(id)].cur EXCEPT
                            !.error = Denial,
                            !.observation = Obs("Failed: ", Denial)])
             /\ tasks'[Owner(id)].status = "running"
             /\ gen'[Owner(id)].pc = "yield"]_vars

C8_Witness ==
  \E id \in DOMAIN approvals :
    /\ approvals[id].outcomes = <<"TimedOut">>
    /\ gen[Owner(id)].pc = "chat"
    /\ Len(tasks[Owner(id)].steps) = 2
    /\ LastStep(Owner(id)).error = Denial

\* C9: the execute operation of a tool that requires approval only runs for
\* an ApprovalRequest that approveAction resolved as Approved, whatever the
\* entry point.
C9_ExecuteOnlyIfApproved ==
  \A e \in execLog : requiresApproval(e.tool) =>
     /\ e.aid \in DOMAIN approvals
     /\ approvals[e.aid].outcomes = <<"Approved">>
     /\ approvals[e.aid].tool = e.tool

\* C10: an ApprovalRequest is only registered for a registered tool whose
\* parameters pass the schema and the custom validator.
C10_ApprovalAfterValidation ==
  \A id \in DOMAIN approvals :
     /\ approvals[id].tool \in RegisteredTools
     /\ SchemaAccepts(approvals[id].tool, approvals[id].parameters)
     /\ CustomValidatorAccepts(approvals[id].tool, approvals[id].parameters)

----------------------------------------------------------------------------
(* The tool registry seen from its callers                                 *)

ToolStepsOf(t) == {i \in DOMAIN tasks[t].steps : tasks[t].steps[i].action # Undefined}

\* C11: ToolRegistry.executeTool always returns a ToolResult: no run of a
\* tool lets a fault escape executeTool, and no step that asked for a tool
\* was finished by the catch block of generateNextStep (the only place where
\* an exception thrown by executeTool can land).
C11_RegistryNeverThrows ==
  /\ \A e \in execLog : ~e.threw
  /\ \A t \in TaskIds : \A i \in ToolStepsOf(t) :
        tasks[t].steps[i].observation.prefix # "Error: "

\* C12: every tool invocation asked for by a finished step has recorded
\* exactly one metric, under the tool's name: for a task with no tool call
\* under way the metrics recorded for it are, in order, those of its steps
\* that carry an action.
C12_OneMetricPerToolStep ==
  \A t \in TaskIds : gen[t].pc \notin {"tool", "approval"} =>
     /\ Len(toolMetrics.byTask[t]) = Cardinality(ToolStepsOf(t))
     /\ \A k \in DOMAIN toolMetrics.byTask[t] :
           \E i \in ToolStepsOf(t) :
              /\ Cardinality({j \in ToolStepsOf(t) : j <= i}) = k
              /\ toolMetrics.byTask[t][k].tool = tasks[t].steps[i].action

----------------------------------------------------------------------------
(* The task loop                                                           *)

\* C13: an admitted task whose consumer keeps asking for steps ends
\* Completed or Failed; and a task whose generator has ended gets no further
\* step, status, result or error, and its generator never runs again.
C13_TaskTerminates ==
  /\ \A t \in 1..MaxToolTasks :
        []((t \in TaskIds /\ Admitted(t)) =>
             <>(t \in TaskIds /\ tasks[t].status \in Terminal))
  /\ [][\A t \in TaskIds : gen[t].pc = "done" =>
            (tasks'[t] = tasks[t] /\ gen'[t] = gen[t])]_vars

C13_Witness ==
  /\ \E t \in TaskIds : tasks[t].status = "completed" /\ Len(tasks[t].steps) > 1
  /\ \E id \in DOMAIN approvals : approvals[id].outcomes = <<"TimedOut">>

\* C14: a step whose thought holds a completion phrase is the last step of
\* its task, and as soon as the consumer has asked for the next step the task
\* is Completed, at whatever position (1..maxIterations) that step stands.
\* (A consumer that closed the generator instead is C4's case.)
C14_CompletesAtPhrase ==
  \A t \in TaskIds : \A i \in DOMAIN tasks[t].steps :
     HasCompletionPhrase(tasks[t].steps[i].thought) =>
        /\ i = Len(tasks[t].steps)
        /\ i <= maxIterations
        /\ gen[t].pc = "yield" \/ gen[t].closed \/ tasks[t].status = "completed"

\* the consumer of task t asks for the next step in this step
Resumed(t) == gen[t].pc = "yield" /\ gen'[t].pc # "yield" /\ ~gen'[t].closed

AllOfLast3Failed(steps) ==
  /\ Len(steps) >= 3
  /\ \A i \in (Len(steps) - 2)..Len(steps) : steps[i].error # Undefined

TaskErrors ==
  {"Maximum concurrent tasks reached", "Task execution timeout",
   "Maximum iterations reached", "Too many consecutive errors"}

\* the step carries a provider failure or a failed tool result
StepFailed(s) == s.observation.prefix \in {"Failed: ", "Error: "}

StepAppended(t) == Len(tasks'[t].steps) = Len(tasks[t].steps) + 1

NoPhrase(t) ==
  \A i \in DOMAIN tasks[t].steps : ~HasCompletionPhrase(tasks[t].steps[i].thought)

\* C17: no task has more than maxIterations steps; a task fails with
\* "Maximum iterations reached" only with exactly maxIterations steps; and a
\* task whose loop ran to its end with no completion phrase, no timeout and
\* no consecutive-error abort has failed with that error.
C17_IterationCap ==
  \A t \in TaskIds :
     /\ Len(tasks[t].steps) <= maxIterations
     /\ tasks[t].error = "Maximum iterations reached" =>
           (tasks[t].status = "failed" /\ Len(tasks[t].steps) = maxIterations)
     /\ (Admitted(t) /\ gen[t].pc = "done" /\ ~gen[t].closed /\ NoPhrase(t) /\
         tasks[t].error \notin {"Task execution timeout", "Too many consecutive errors"})
           => (tasks[t].status = "failed" /\ tasks[t].error = "Maximum iterations reached")

C17_Witness ==
  \E t \in TaskIds :
    /\ tasks[t].error = "Maximum iterations reached"
    /\ NoPhrase(t)

\* C18: a task gets the error "Task execution timeout" only when its loop
\* is resumed at a yield, never while a provider call, a tool execution or an
\* approval wait is under way; the task is then Failed, its generator is done
\* and no step is added in that step or later.
C18_TimeoutAtIterationStart ==
  /\ [](\A t \in TaskIds : tasks[t].error = "Task execution timeout" =>
           (tasks[t].status = "failed" /\ gen[t].pc = "done"))
  /\ [][\A t \in TaskIds :
          /\ (tasks'[t].error = "Task execution timeout" /\
               tasks[t].error # "Task execution timeout") =>
                (gen[t].pc = "yield" /\ tasks'[t].steps = tasks[t].steps)
          /\ tasks[t].error = "Task execution timeout" => tasks'[t] = tasks[t]]_vars

C18_Witness ==
  \E id \in DOMAIN approvals :
    /\ approvals[id].outcomes = <<"TimedOut">>
    /\ tasks[Owner(id)].error = "Task execution timeout"
    /\ LastStep(Owner(id)).error = Denial

\* C19: a task is Running, Completed or Failed in every state (Queued is
\* left inside the call that creates the task; PendingApproval is never
\* assigned, a task waiting for an approval is Running); a new task is Running
\* or Failed; afterwards the status only goes from Running to Completed or
\* Failed and never leaves those.
C19_StatusMonotone ==
  /\ [](\A t \in TaskIds :
          /\ tasks[t].status \in {"running", "completed", "failed"}
          /\ gen[t].pc = "approval" => tasks[t].status = "running")
  /\ [][/\ \A t \in TaskIds :
             \/ tasks'[t].status = tasks[t].status
             \/ tasks[t].status = "running" /\ tasks'[t].status \in Terminal
        /\ \A t \in (1..Len(tasks')) \ TaskIds :
             \/ tasks'[t].status = "running"
             \/ tasks'[t].status = "failed" /\ Rejected(t)']_vars

C19_Witness ==
  \E id \in DOMAIN approvals :
    /\ approvals[id].outcomes = <<"Denied">>
    /\ tasks[Owner(id)].status = "completed"

\* C20: a Failed task carries one of the four task errors; a Completed task
\* carries a result and no error.
C20_TerminalHasOutcome ==
  \A t \in TaskIds :
     /\ tasks[t].status = "failed" =>
           (tasks[t].error \in TaskErrors /\ tasks[t].error \notin {Undefined, ""})
     /\ tasks[t].status = "completed" =>
           (tasks[t].result # NoResult /\ tasks[t].error = Undefined)

C20_Witness ==
  \E t \in TaskIds :
    /\ tasks[t].status = "completed"
    /\ tasks[t].result.kind = "data"
    /\ tasks[t].error = Undefined

\* C21: in every reachable state a task has at most maxIterations steps: the
\* loop counter never passes maxIterations and a task never has more steps
\* than its loop has had iterations.
C21_StepsWithinCap ==
  \A t \in TaskIds :
     /\ Len(tasks[t].steps) <= maxIterations
     /\ Len(tasks[t].steps) <= gen[t].iteration
     /\ gen[t].iteration <= maxIterations

C21_Witness ==
  \E t \in TaskIds :
    /\ Len(tasks[t].steps) = maxIterations
    /\ gen[t].pc = "yield" /\ tasks[t].status = "running"

----------------------------------------------------------------------------
(* LLMClient                                                               *)

\* call c got a completion from the provider
Fetched(c) == \E k \in DOMAIN chats[c].tried : chats[c].tried[k].outcome.ok

Fetches(c) == IF Fetched(c) THEN 1 ELSE 0

\* calls i and j carry the same messages and tools, both with stream=false
SamePayload(i, j) ==
  chats[i].key = chats[j].key /\ ~chats[i].stream /\ ~chats[j].stream

\* call j was made within the cache TTL of the earlier call i
WithinTTL(i, j) == chats[j].startedAt - chats[i].startedAt <= stdTTL

\* C22: of two identical non-streaming chat calls made within the cache TTL
\* at most one obtains its response from the provider (the other is answered
\* from the cache or fails), also when the second call is made while the
\* first is still waiting for the provider.
C22_IdenticalCallsFetchOnce ==
  \A i, j \in DOMAIN chats :
     (i < j /\ SamePayload(i, j) /\ WithinTTL(i, j)) =>
        Fetches(i) + Fetches(j) <= 1

\* a rate limit (429) or any 5xx server error
IsTransient(status) == status = 429 \/ status \in 500..599

Attempt(c, k) == chats[c].tried[k]

AttemptFailed(c, k) == ~Attempt(c, k).outcome.ok

LastAttempt(c) == Attempt(c, Len(chats[c].tried))

\* every attempt call c has made failed with a transient error
AllFailedTransiently(c) ==
  \A k \in DOMAIN chats[c].tried :
     AttemptFailed(c, k) /\ IsTransient(Attempt(c, k).outcome.status)

\* C23: a chat call tries the models in list order, each at most once; after
\* an attempt that failed with a 429 or a 5xx the next model of the list is
\* tried; a call returns the response of its first successful attempt; and a
\* call whose attempts all failed transiently on every model fails with the
\* aggregate error that carries the last model's error message.
C23_FallbackOnTransient ==
  \A c \in DOMAIN chats :
     /\ \A k \in DOMAIN chats[c].tried :
           /\ Attempt(c, k).model = k
           /\ (AttemptFailed(c, k) /\ IsTransient(Attempt(c, k).outcome.status)
                 /\ k + 1 \in models) =>
                 (Len(chats[c].tried) > k \/
                  (chats[c].pc = "await" /\ chats[c].model = k + 1))
           /\ Attempt(c, k).outcome.ok =>
                 /\ k = Len(chats[c].tried)
                 /\ chats[c].pc = "returned"
                 /\ chats[c].result = ParsedResponse(c, k)
     /\ (Len(chats[c].tried) = Cardinality(models) /\ AllFailedTransiently(c)) =>
           /\ chats[c].pc = "threw"
           /\ chats[c].error.kind = "aggregate"
           /\ chats[c].error.of =
                <<LastAttempt(c).outcome.status, LastAttempt(c).model>>

\* C24: an attempt that fails with an error that is neither a rate limit nor
\* a server error is the last attempt of its call, and the call has failed
\* with that very error.
C24_NonTransientPropagates ==
  \A c \in DOMAIN chats : \A k \in DOMAIN chats[c].tried :
     (AttemptFailed(c, k) /\ ~IsTransient(Attempt(c, k).outcome.status)) =>
        /\ k = Len(chats[c].tried)
        /\ chats[c].pc = "threw"
        /\ chats[c].error.kind = "api"
        /\ chats[c].error.of = <<Attempt(c, k).outcome.status, Attempt(c, k).model>>

C24_Witness ==
  \E c \in DOMAIN chats :
    /\ Len(chats[c].tried) = 2
    /\ Attempt(c, 1).outcome.status = 429
    /\ Attempt(c, 2).outcome.status = 400
    /\ chats[c].pc = "threw"
    /\ chats[c].error = ApiError(400, 2)

Recorded(c, metric) == \E n \in DOMAIN chats[c].metrics : chats[c].metrics[n] = metric

\* C25: a call whose primary attempt failed with a rate limit and whose
\* attempt on a fallback model succeeded has returned the fallback's
\* response and has recorded a failure metric for the primary model and a
\* success metric for the fallback.
C25_BothAttemptsMeasured ==
  \A c \in DOMAIN chats : \A k \in DOMAIN chats[c].tried :
     (k > 1 /\ Attempt(c, 1).outcome.status = 429 /\ Attempt(c, k).outcome.ok) =>
        /\ chats[c].pc = "returned"
        /\ chats[c].result = ParsedResponse(c, Attempt(c, k).model)
        /\ Recorded(c, LLMMetric(1, "failure"))
        /\ Recorded(c, LLMMetric(Attempt(c, k).model, "success"))

----------------------------------------------------------------------------
(* Results and conversations                                               *)

\* the steps of the drawn task that have no error and a non-empty result
GoodSteps ==
  {i \in DOMAIN drawnTask.steps :
      /\ drawnTask.steps[i].error = Undefined
      /\ drawnTask.steps[i].result.kind = "data"
      /\ drawnTask.steps[i].result.v # ""}

\* C26: the result of a completed task is the result of its most recent
\* step that has no error and a non-empty result, and the summary
\* {summary: "Task completed", steps: N} when it has no such step.
C26_ResultOfLatestGoodStep ==
  drawnTask.status = "completed" =>
     IF GoodSteps = {}
       THEN drawnTask.result =
              [kind |-> "summary", v |-> "Task completed", n |-> Len(drawnTask.steps)]
       ELSE \E i \in GoodSteps :
              /\ \A j \in GoodSteps : j <= i
              /\ drawnTask.result = drawnTask.steps[i].result

C26_Witness ==
  /\ drawnTask.status = "completed"
  /\ \E i, j \in GoodSteps :
        /\ i < j /\ j < Len(drawnTask.steps)
        /\ drawnTask.steps[i].result # drawnTask.steps[j].result
        /\ drawnTask.result = drawnTask.steps[j].result

C26_WitnessSummary ==
  /\ drawnTask.status = "completed"
  /\ GoodSteps = {}
  /\ \E i \in DOMAIN drawnTask.steps : drawnTask.steps[i].result.kind = "data"
  /\ drawnTask.result.kind = "summary"

\* the entries of the conversation that render a step
StepEntries == {k \in DOMAIN messages : messages[k].step # 0}

\* C30: the conversation built for an iteration is the system directive,
\* the formatted instruction, entries for steps among the last memoryWindow
\* steps of the task only, in step order (a step's thought before its
\* observation), and the closing prompt: at most 2 * memoryWindow + 3
\* messages whatever the number of steps.
C30_ConversationWindow ==
  messages # <<>> =>
     /\ messages[1] = SystemDirective
     /\ messages[2] = TaskInstruction
     /\ messages[Len(messages)] = NextActionPrompt
     /\ StepEntries = 3..(Len(messages) - 1)
     /\ \A k \in StepEntries :
           /\ messages[k].step \in DOMAIN drawnTask.steps
           /\ messages[k].step > Len(drawnTask.steps) - memoryWindow
           /\ messages[k].lead = "THOUGHT: " =>
                 messages[k].body = drawnTask.steps[messages[k].step].thought
           /\ messages[k].lead = "OBSERVATION: " =>
                 messages[k].body = drawnTask.steps[messages[k].step].observation.text
     /\ \A k, l \in StepEntries :
           k < l => \/ messages[k].step < messages[l].step
                    \/ /\ messages[k].step = messages[l].step
                       /\ messages[k].lead = "THOUGHT: "
                       /\ messages[l].lead = "OBSERVATION: "
     /\ Cardinality({messages[k].step : k \in StepEntries}) <= memoryWindow
     /\ Len(messages) <= 2 * memoryWindow + 3

C30_Witness ==
  /\ Len(drawnTask.steps) > memoryWindow
  /\ Len(messages) = 2 * memoryWindow + 3

----------------------------------------------------------------------------
(* The registry's gate                                                     *)

\* the first check of the documented order that a call fails
FirstFailing(r) ==
  IF r.name \notin RegisteredTools THEN "lookup"
  ELSE IF ~SchemaAccepts(r.name, r.params) THEN "schema"
  ELSE IF ~CustomValidatorAccepts(r.name, r.params) THEN "validate"
  ELSE IF requiresApproval(r.name) /\ ~r.approved THEN "approval"
  ELSE "none"

ErrorOf(check) ==
  CASE check = "lookup" -> "Tool not found"
    [] check = "schema" -> "Invalid parameters"
    [] check = "validate" -> "Validation failed"
    [] check = "approval" -> "Tool requires approval"

CheckRank(check) ==
  CASE check = "lookup" -> 1
    [] check = "schema" -> 2
    [] check = "validate" -> 3
    [] check = "approval" -> 4
    [] check = "execute" -> 5

\* C27: executeTool calls tool.execute exactly when the tool exists, the
\* parameters pass the schema, the custom validator accepts them and the
\* tool needs no approval or the context is approved; the checks run in that
\* order; the first one that fails is the last thing executeTool evaluates
\* and gives the returned error.
C27_GateOrder ==
  \A k \in DOMAIN registryCalls :
     LET r == registryCalls[k]
         last == r.checks[Len(r.checks)]
     IN
     /\ r.executed <=> FirstFailing(r) = "none"
     /\ r.executed <=> last = "execute"
     /\ \A a, b \in DOMAIN r.checks :
           a < b => CheckRank(r.checks[a]) < CheckRank(r.checks[b])
     /\ FirstFailing(r) # "none" =>
           /\ last = FirstFailing(r)
           /\ r.error = ErrorOf(FirstFailing(r))
           /\ ~r.success

C27_Witness ==
  \E k \in DOMAIN registryCalls :
    /\ registryCalls[k].name = "exec"
    /\ registryCalls[k].params = "rm -rf /"
    /\ ~registryCalls[k].approved
    /\ registryCalls[k].error = "Validation failed"
    /\ registryCalls[k].checks = <<"lookup", "schema", "validate">>

----------------------------------------------------------------------------
(* The steps of a task                                                     *)

\* C28: the steps of a task only grow at the end, one step at a time: the
\* earlier sequence stays a prefix with every field of every step as it
\* was, and the step appended by iteration n stands at position n.
C28_StepsAppendOnly ==
  [][\A t \in TaskIds :
        /\ Len(tasks'[t].steps) \in {Len(tasks[t].steps), Len(tasks[t].steps) + 1}
        /\ SubSeq(tasks'[t].steps, 1, Len(tasks[t].steps)) = tasks[t].steps
        /\ StepAppended(t) =>
              /\ gen[t].pc \in {"chat", "tool", "approval"}
              /\ Len(tasks'[t].steps) = gen[t].iteration
              /\ gen[t].pc # "chat" =>
                    /\ tasks'[t].steps[Len(tasks'[t].steps)].thought = gen[t].cur.thought
                    /\ tasks'[t].steps[Len(tasks'[t].steps)].action = gen[t].cur.action]_vars

C28_Witness ==
  \E t \in TaskIds :
    /\ Len(tasks[t].steps) = 3
    /\ tasks[t].steps[1] # tasks[t].steps[2]
    /\ tasks[t].steps[2] # tasks[t].steps[3]
    /\ tasks[t].status \in Terminal

\* the steps of task t, finished or under way, that ask for tool x
StepsAsking(t, x) ==
  Cardinality({i \in DOMAIN tasks[t].steps : tasks[t].steps[i].action = x})
    + (IF gen[t].cur.action = x THEN 1 ELSE 0)

\* C29: a step carries out at most the first tool call of its turn: a step
\* made from a turn with several calls has the first call as its action and
\* input, and a task has no more approval requests and no more tool runs for
\* a tool than it has steps whose action is that tool.
C29_OnlyFirstCallDispatched ==
  \A t \in TaskIds :
     /\ \A i \in DOMAIN tasks[t].steps :
           tasks[t].steps[i].thought = SeveralCalls.content =>
              /\ tasks[t].steps[i].action = SeveralCalls.toolCalls[1].name
              /\ tasks[t].steps[i].actionInput = SeveralCalls.toolCalls[1].args
     /\ gen[t].cur.thought = SeveralCalls.content =>
           gen[t].cur.action = SeveralCalls.toolCalls[1].name
     /\ \A x \in RegisteredTools :
           /\ Cardinality({e \in execLog : e.task = t /\ e.tool = x}) <= StepsAsking(t, x)
           /\ Cardinality({id \in DOMAIN approvals :
                              approvals[id].taskId = t /\ approvals[id].tool = x})
                 <= StepsAsking(t, x)

C29_Witness ==
  \E t \in TaskIds :
    /\ Len(tasks[t].steps) > 0
    /\ tasks[t].steps[1].thought = SeveralCalls.content
    /\ tasks[t].steps[1].result = Payload("screenshot")
    /\ gen[t].pc = "done"
    /\ approvals = <<>>
    /\ \A e \in execLog : e.tool = "screenshot"

----------------------------------------------------------------------------
(* LLMClient: streamed calls and failed calls                              *)

\* call c was answered from the cache (it asked no model)
FromCache(c) == chats[c].model = 0

\* call j was made after call i ended, with the same messages and tools
\* and within the cache TTL
Follows(i, j) ==
  /\ i < j /\ chats[i].key = chats[j].key
  /\ chats[i].pc \in {"returned", "threw"}
  /\ WithinTTL(i, j)

\* C31: a chat call with stream=true is never answered from the cache, what
\* it returns is the response the provider gave to this very call, no cache
\* entry holds the response of a streamed call, and no call answered from
\* the cache received the response of a streamed call.
C31_StreamBypassesCache ==
  /\ \A c \in DOMAIN chats :
        chats[c].stream =>
          /\ ~FromCache(c)
          /\ chats[c].pc = "returned" =>
                Fetched(c) /\ chats[c].result = ParsedResponse(c, chats[c].model)
  /\ \A e \in cache : ~chats[e.value.chat].stream
  /\ \A j \in DOMAIN chats :
        FromCache(j) => ~chats[chats[j].result.chat].stream

\* a streamed call made while the cache held a live response for the same
\* messages and tools has returned the provider's answer
C31_Witness ==
  \E i, j \in DOMAIN chats :
    /\ Follows(i, j)
    /\ ~chats[i].stream /\ chats[i].pc = "returned" /\ Fetched(i)
    /\ chats[j].stream /\ chats[j].pc = "returned"
    /\ chats[j].result = ParsedResponse(j, chats[j].model)

\* a non-streaming call made after a streamed call with the same messages
\* and tools returned has asked the provider
C31_WitnessLaterCall ==
  \E i, j \in DOMAIN chats :
    /\ Follows(i, j)
    /\ chats[i].stream /\ chats[i].pc = "returned"
    /\ ~chats[j].stream /\ ~FromCache(j) /\ chats[j].pc = "returned"

\* C32: an attempt of a chat call that failed with a rate limit or a server
\* error while the streamed response was read has a failure metric recorded
\* for its model, and the next model of the list, if there is one, is asked.
C32_StreamFailureFallsBack ==
  \A c \in DOMAIN chats : \A k \in DOMAIN chats[c].tried :
     (Attempt(c, k).during = "stream" /\ AttemptFailed(c, k)
        /\ shouldRetry(Attempt(c, k).outcome.status)) =>
        /\ Recorded(c, LLMMetric(Attempt(c, k).model, "failure"))
        /\ Attempt(c, k).model + 1 \in models =>
              \/ Len(chats[c].tried) > k
              \/ chats[c].pc = "await" /\ chats[c].model = Attempt(c, k).model + 1

\* call c fails in this step
Fails(c) == chats[c].pc # "threw" /\ chats'[c].pc = "threw"

\* C33: the step in which a chat call fails leaves the cache as it was;
\* every cache entry holds the response of a call that returned, and so does
\* every call answered from the cache: a failure is never replayed.
C33_FailureLeavesCache ==
  [][ /\ \A c \in DOMAIN chats : Fails(c) => cache' = cache
      /\ \A e \in cache' : chats'[e.value.chat].pc = "returned"
      /\ \A j \in DOMAIN chats' :
            chats'[j].model = 0 =>
              /\ chats'[chats'[j].result.chat].pc = "returned"
              /\ chats'[j].result.chat < j ]_vars

\* after a non-streaming call failed, the next identical call made within
\* the TTL found nothing in the cache and asked the provider
C33_Witness ==
  \E i, j \in DOMAIN chats :
    /\ Follows(i, j) /\ j = i + 1
    /\ ~chats[i].stream /\ chats[i].pc = "threw"
    /\ Len(chats[i].tried) = Cardinality(models)
    /\ ~chats[j].stream /\ ~FromCache(j) /\ Len(chats[j].tried) > 0

----------------------------------------------------------------------------
(* What the Planner emits, and what the web client makes of it             *)

TerminalEvents == {"task:completed", "task:failed"}

\* the positions of the events of these types among the events of task t
EventsAt(t, types) == {n \in DOMAIN events[t] : events[t][n].type \in types}

\* The order of the events of task t: task:created is the first and only
\* one of its kind; a task rejected for capacity has task:failed next and
\* nothing else; an admitted task has task:started next, once; a terminal
\* event is the last event.
EventsOrdered(t) ==
  /\ EventsAt(t, {"task:created"}) = {1}
  /\ IF Rejected(t)
       THEN events[t] = <<Ev("task:created", 0), Ev("task:failed", 0)>>
       ELSE EventsAt(t, {"task:started"}) = {2}
  /\ EventsAt(t, TerminalEvents) \subseteq {Len(events[t])}

EndsWithTerminal(t) == EventsAt(t, TerminalEvents) = {Len(events[t])}

\* C34: the events of every task are ordered (task:created first, for an
\* admitted task task:started before any task:step, a terminal event last
\* and nothing after it; created then failed for a rejected task), and a
\* task whose generator has finished has emitted its one terminal event.
C34_LifecycleEvents ==
  \A t \in TaskIds :
     /\ EventsOrdered(t)
     /\ gen[t].pc = "done" => EndsWithTerminal(t)

\* the order alone, which every run keeps
C34_OrderOnly == \A t \in TaskIds : EventsOrdered(t)

\* step number i of task t has been announced by a task:step event
Announced(t, i) ==
  \E n \in DOMAIN events[t] : events[t][n] = Ev("task:step", i)

\* C35: every step of a task is announced by a task:step event for that
\* step (the step a suspended generator has just yielded is announced when
\* the generator resumes), also the last step of a task that was aborted
\* for consecutive errors.
C35_EveryStepAnnounced ==
  \A t \in TaskIds : \A i \in DOMAIN tasks[t].steps :
     \/ Announced(t, i)
     \/ i = Len(tasks[t].steps) /\ gen[t].pc = "yield"

\* the approval:granted and approval:denied events for request id
Decisions(id) ==
  {n \in DOMAIN events[Owner(id)] :
     /\ events[Owner(id)][n].type \in {"approval:granted", "approval:denied"}
     /\ events[Owner(id)][n].ref = id}

\* C36: every request has one approval:requested event; while it is pending
\* no approval:granted or approval:denied event exists for it, and once it
\* is resolved, by a decision or by the timer, exactly one exists.
C36_RequestedThenDecided ==
  \A id \in DOMAIN approvals :
     /\ Cardinality({n \in DOMAIN events[Owner(id)] :
                        events[Owner(id)][n] = Ev("approval:requested", id)}) = 1
     /\ Cardinality(Decisions(id)) = (IF IsPending(id) THEN 0 ELSE 1)

StepPayload(t, i) ==
  [steps |-> SubSeq(tasks[t].steps, 1, i), step |-> tasks[t].steps[i]]

\* socket.on('task:created'): store.addTask(task)
addTask == [steps |-> <<>>, status |-> "queued"]

\* store.updateTask(task.id, updates): { ...task, ...updates }
updateSteps(stored, steps) == [stored EXCEPT !.steps = steps]

\* socket.on('task:step', ({ task, step }) => store.updateTask(task.id,
\* { steps: [...(task.steps || []), step] }))
onTaskStep(stored, payload) ==
  updateSteps(stored, payload.steps \o <<payload.step>>)

\* The web client's record of task t after it handled the first n events
\* of the task, in the order they were emitted
RECURSIVE ClientTask(_, _)
ClientTask(t, n) ==
  IF n = 0 THEN addTask
  ELSE LET before == ClientTask(t, n - 1)
           e == events[t][n]
       IN IF e.type = "task:step" THEN onTaskStep(before, StepPayload(t, e.ref))
          ELSE IF e.type = "task:started" THEN [before EXCEPT !.status = "running"]
          ELSE IF e.type = "task:completed" THEN [before EXCEPT !.status = "completed"]
          ELSE IF e.type = "task:failed" THEN [before EXCEPT !.status = "failed"]
          ELSE before

\* C38: after the web client handled a task:step event its step list for
\* the task is the list of steps the task had when the event was emitted.
C38_ClientStepsMatch ==
  \A t \in TaskIds : \A n \in DOMAIN events[t] :
     events[t][n].type = "task:step" =>
        ClientTask(t, n).steps = SubSeq(tasks[t].steps, 1, events[t][n].ref)
====
